---- MODULE Spec2Model ----
(***************************************************************************)
(* feops: the wave scheduler of the `merged` and `uptodate` commands and   *)
(* the per-repository inspection (processProject) they run.                *)
(*                                                                         *)
(* A repository is a set of refs over a small commit graph.  Every         *)
(* execSync call of processProject is one action; its outcome is what git  *)
(* answers for the repository's refs, or a tool error.                     *)
(***************************************************************************)
EXTENDS Integers, Sequences, FiniteSets, TLC

\* ------------------------------------------------------------------ bounds
\* discovered repositories per run: 0..MaxRepos
MaxRepos == 3
\* -p values explored: 1..MaxParallel
MaxParallel == 3
\* failing git calls (failed or timed-out fetch, tool error) per run
MaxFaults == 1
\* entries of the target directory: 0..MaxEntries
MaxEntries == 3
\* characters of the -p value: 0..MaxOptLen
MaxOptLen == 3
\* calls of checkForUpdates: 0..MaxChecks
MaxChecks == 3

\* --------------------------------------------------------------- git model
\* The commit graph every repository draws its refs from: a diamond
\*   1 <- 2, 1 <- 3, {2,3} <- 4 (a merge commit).
NCommits == 4
Commits == 1..NCommits
NoRef == 0
RefVals == {NoRef} \cup Commits

Parents(c) ==
  IF c = 1 THEN {}
  ELSE IF c = 4 THEN {2, 3}
  ELSE {1}

RECURSIVE Reach(_)
\* the commits reachable from c, c included (git rev-list c)
Reach(c) ==
  IF c = NoRef THEN {}
  ELSE {c} \cup UNION {Reach(p) : p \in Parents(c)}

IsProperAncestor(a, b) == a # b /\ a \in Reach(b)

\* git merge-base --is-ancestor a b exits 0
IsAncestor(a, b) == a \in Reach(b)

\* git rev-list --count a..b
RevListCount(a, b) == Cardinality(Reach(b) \ Reach(a))

\* git's lookup of a ref name: the plain name is refs/heads/<name>, the
\* origin form is refs/remotes/origin/<name>.  kind is "branch" or "base".
RevParse(r, kind, form) ==
  IF kind = "branch"
  THEN (IF form = "plain" THEN r.lb ELSE r.rb)
  ELSE (IF form = "plain" THEN r.lm ELSE r.rm)

\* a commit with more than one parent
IsMergeCommit(c) == Cardinality(Parents(c)) > 1

\* git log --merges --grep="Merge.*${branchName}" ${baseBranch}: the merge
\* commits reachable from the plain base name whose message names the
\* branch; r.mm tells whether the merge messages of r name it
MergeLog(r) ==
  IF r.mm
  THEN {c \in Reach(RevParse(r, "base", "plain")) : IsMergeCommit(c)}
  ELSE {}

Min(a, b) == IF a < b THEN a ELSE b

\* ------------------------------------------------------------------- state
VARIABLES
  cmd,            \* "merged" | "uptodate": which command runs
  fetchOpt,       \* options.fetch
  parallel,       \* parseInt(options.parallel)
  projectDirs,    \* discovered repository names, in directory-listing order
  repos,          \* name -> refs of the working copy and of its remote
  i,              \* the wave loop's index
  pc,             \* position of the command action: "loop" | "map" | "done"
  batch,          \* projectDirs.slice(i, i + parallel)
  batchPromises,  \* the jobs of the wave, in map order
  results,        \* results
  progress,       \* progressBar.current after each progressBar.update
  trace,          \* name -> the execSync calls made for it, <<command, outcome>>
  faults,         \* git calls that have failed so far in this run
  \* the command line and the target directory of merged / uptodate
  optParallel,    \* options.parallel, the string given to -p
  parallelNaN,    \* parseInt(options.parallel) is NaN (parallel is then 0)
  targetExists,   \* fs.existsSync(targetDir)
  entries,        \* fs.readdirSync(targetDir): the kind of every entry
  \* a second invocation of the same command
  run,            \* 1 | 2: which invocation this is
  firstResults,   \* the result list of the first invocation
  \* the sync command
  sDryRun,        \* options.dryRun
  sParallel,      \* parallel
  filteredRepos,  \* the names of the repositories to process, in order
  disk,           \* name -> what is at path.join(targetDir, name)
  targetDirOnDisk, \* fs.existsSync(targetDir)
  repoInfos,      \* repoInfos
  sPc,            \* position of the sync action
  sI,             \* start of the current chunk
  sJobs,          \* the processRepository calls of the chunk, in map order
  sResults,       \* results
  gitCalls,       \* position -> the git commands spawned for it, in order
  \* the update check
  uClock,         \* Date.now(), in hours
  uNow,           \* now, as the running check read it
  uForce,         \* force
  uValid,         \* currentVersion is a non-empty string
  uFile,          \* the content of UPDATE_CHECK_FILE
  uPc,            \* "idle" | "request": position of checkForUpdates
  uRequests,      \* requests made to the registry so far
  uChecks,        \* calls of checkForUpdates so far
  uLatest         \* latestVersion as the last request returned it, 0: none

setupVars == <<optParallel, parallelNaN, targetExists, entries>>

rerunVars == <<run, firstResults>>

syncVars == <<sDryRun, sParallel, filteredRepos, disk, targetDirOnDisk,
              repoInfos, sPc, sI, sJobs, sResults, gitCalls>>

updateVars == <<uClock, uNow, uForce, uValid, uFile, uPc, uRequests,
                uChecks, uLatest>>

otherVars == <<setupVars, rerunVars, syncVars, updateVars>>

mainVars == <<cmd, fetchOpt, parallel, projectDirs, repos, i, pc, batch,
              batchPromises, results, progress, trace>>

vars == <<mainVars, faults, otherVars>>

InitResultDriftUnset(name) ==
  [name |-> name, branchExists |-> FALSE, masterExists |-> FALSE,
   isMerged |-> FALSE, isUpToDate |-> FALSE, hasMasterChanges |-> FALSE,
   behindCommits |-> -1, mergeCommit |-> FALSE, mergeDate |-> FALSE,
   lastMasterCommit |-> NoRef, lastBranchCommit |-> NoRef,
   lastMasterDate |-> FALSE, lastBranchDate |-> FALSE,
   error |-> "none", fetchSuccess |-> FALSE]

\* MergeCheckResult / MasterMergeCheckResult at the top of processProject
InitResult(name) ==
  [name |-> name, branchExists |-> FALSE, masterExists |-> FALSE,
   isMerged |-> FALSE, isUpToDate |-> FALSE, hasMasterChanges |-> FALSE,
   behindCommits |-> 0, mergeCommit |-> FALSE, mergeDate |-> FALSE,
   lastMasterCommit |-> NoRef, lastBranchCommit |-> NoRef,
   lastMasterDate |-> FALSE, lastBranchDate |-> FALSE,
   error |-> "none", fetchSuccess |-> FALSE]

\* the job fetches whether or not fetching is enabled
NewJobAlwaysFetch(name) ==
  [name |-> name,
   pc |-> "fetch",
   result |-> [InitResult(name) EXCEPT !.fetchSuccess = ~fetchOpt],
   actualBranchRef |-> "plain", actualMasterRef |-> "plain",
   branchCommit |-> NoRef, masterCommit |-> NoRef]

\* the locals of one processProject call; pc is the execSync it reaches next
NewJob(name) ==
  [name |-> name,
   pc |-> IF fetchOpt THEN "fetch" ELSE "verifyBase",
   result |-> [InitResult(name) EXCEPT !.fetchSuccess = ~fetchOpt],
   actualBranchRef |-> "plain", actualMasterRef |-> "plain",
   branchCommit |-> NoRef, masterCommit |-> NoRef]

\* refs of a working copy: lb/lm local branch and base, rb/rm their
\* origin/ remote-tracking refs, ub/um the heads on the remote itself
RepoStates ==
  [lb : RefVals, rb : RefVals, lm : RefVals, rm : RefVals,
   ub : RefVals, um : RefVals, mm : BOOLEAN]

\* the repositories of a batch run: branch absent; local branch merged into
\* local base; branch only on origin, behind the base, remote has moved on
BatchRepoStates ==
  { [lb |-> NoRef, rb |-> NoRef, lm |-> 4, rm |-> 4, ub |-> NoRef, um |-> 4,
     mm |-> FALSE],
    [lb |-> 2, rb |-> 2, lm |-> 4, rm |-> 4, ub |-> 2, um |-> 4,
     mm |-> TRUE],
    [lb |-> NoRef, rb |-> 1, lm |-> 4, rm |-> 2, ub |-> 3, um |-> 4,
     mm |-> FALSE] }

\* one repository with every combination of refs; the remote either has
\* nothing new or has moved both heads
InspectRepoStates ==
  { r \in RepoStates :
      \/ r.ub = r.rb /\ r.um = r.rm
      \/ r.ub = NoRef /\ r.um = NCommits }

\* the decimal digits, DigitChars[d + 1] for the digit d
DigitChars == <<"0", "1", "2", "3", "4", "5", "6", "7", "8", "9">>

\* CHECK_INTERVAL = 24 * 60 * 60 * 1000 ms, in hours
CHECK_INTERVAL == 24

\* no UPDATE_CHECK_FILE on disk
NoFile ==
  [present |-> FALSE, lastCheck |-> 0, latestVersion |-> 0,
   dismissed |-> FALSE]

\* no update check is running
UpdateIdle ==
  /\ uClock = 2 * CHECK_INTERVAL
  /\ uNow = 0
  /\ uForce = FALSE
  /\ uValid = TRUE
  /\ uFile = NoFile
  /\ uPc = "off"
  /\ uRequests = 0
  /\ uChecks = 0
  /\ uLatest = 0

\* no sync command is running
SyncIdle ==
  /\ sDryRun = FALSE
  /\ sParallel = 1
  /\ filteredRepos = <<>>
  /\ disk = <<>>
  /\ targetDirOnDisk = TRUE
  /\ repoInfos = <<>>
  /\ sPc = "idle"
  /\ sI = 0
  /\ sJobs = <<>>
  /\ sResults = <<>>
  /\ gitCalls = <<>>

InitWith(counts, states) ==
  /\ cmd \in {"merged", "uptodate"}
  /\ fetchOpt \in BOOLEAN
  /\ parallel \in 1..MaxParallel
  /\ optParallel = <<DigitChars[parallel + 1]>>
  /\ parallelNaN = FALSE
  /\ targetExists = TRUE
  /\ \E n \in counts :
       /\ projectDirs = [k \in 1..n |-> k]
       /\ entries = [k \in 1..n |-> "repo"]
       /\ repos \in [1..n -> states]
  /\ run = 1
  /\ firstResults = <<>>
  /\ SyncIdle
  /\ UpdateIdle
  /\ i = 0
  /\ pc = "loop"
  /\ batch = <<>>
  /\ batchPromises = <<>>
  /\ results = <<>>
  /\ progress = <<>>
  /\ trace = [k \in DOMAIN repos |-> <<>>]
  /\ faults = 0

Init == InitWith(0..MaxRepos, BatchRepoStates)

InitInspect == InitWith({1}, InspectRepoStates)

\* -------------------------------------------------------------- scheduler
SliceInclusive(s, from, to) ==
  [k \in 1..(Min(to + 1, Len(s)) - Min(from, Len(s))) |-> s[from + k]]

\* Array.prototype.slice(from, to) with 0 <= from
Slice(s, from, to) ==
  [k \in 1..(Min(to, Len(s)) - Min(from, Len(s))) |-> s[from + k]]

\* processProject is declared async but contains no await: every git call
\* is an execSync, which blocks the only thread until the subprocess ends.
\* The map callback is therefore called for the next element only when the
\* previous call has run to its return.
EventLoopFree ==
  \A k \in DOMAIN batchPromises : batchPromises[k].pc = "returned"

InFlight == {k \in DOMAIN batchPromises : batchPromises[k].pc # "returned"}

Launched == {batchPromises[k].name : k \in DOMAIN batchPromises}

\* the callback is called for the first name of the wave again
LaunchableAgain ==
  IF pc = "map" /\ Len(batchPromises) < Len(batch) /\ EventLoopFree
  THEN {batch[1]}
  ELSE {}

LaunchableUnbounded ==
  IF pc = "map"
  THEN {projectDirs[k] : k \in DOMAIN projectDirs} \
         (Launched \cup {results[k].name : k \in DOMAIN results})
  ELSE {}

\* batch.map(projectName => processProject(...)): the names the callback
\* may be called for now
Launchable ==
  IF pc = "map" /\ Len(batchPromises) < Len(batch) /\ EventLoopFree
  THEN {batch[Len(batchPromises) + 1]}
  ELSE {}

\* Promise.all(batchPromises) resolves
AllSettled ==
  \A k \in DOMAIN batchPromises : batchPromises[k].pc = "returned"

PushFront(rs, batchResults) == batchResults \o rs

\* results.push(...batchResults)
Push(rs, batchResults) == rs \o batchResults

\* the loop advances by one repository
NextIByOne(n) == n + 1

\* i += parallel
NextI(n) == n + parallel

ProcessedBatchOnly(n) == Len(batch)

ProcessedBefore(n) == Min(n, Len(projectDirs))

\* processed = Math.min(i + parallel, projectDirs.length)
Processed(n) == Min(n + parallel, Len(projectDirs))

\* ProgressBar.update: this.current = Math.min(current, this.total)
ProgressBarUpdate(current, total) == Min(current, total)

jobVars == <<cmd, fetchOpt, parallel, projectDirs, i, pc, batch, results,
             progress>>

\* for (...; i < projectDirs.length; ...) { batch = projectDirs.slice(...)
LoopEnter ==
  /\ pc = "loop"
  /\ i < Len(projectDirs)
  /\ batch' = Slice(projectDirs, i, i + parallel)
  /\ batchPromises' = <<>>
  /\ pc' = "map"
  /\ UNCHANGED <<cmd, fetchOpt, parallel, projectDirs, repos, i, results,
                 progress, trace, faults, otherVars>>

\* the loop condition fails: displayResults(results, ...)
LoopExit ==
  /\ pc = "loop"
  /\ ~(i < Len(projectDirs))
  /\ pc' = "done"
  /\ UNCHANGED <<cmd, fetchOpt, parallel, projectDirs, repos, i, batch,
                 batchPromises, results, progress, trace, faults, otherVars>>

\* one call of the map callback: processProject starts
Invoke ==
  /\ \E name \in Launchable :
       batchPromises' = Append(batchPromises, NewJob(name))
  /\ UNCHANGED <<jobVars, repos, trace, faults, otherVars>>

\* await Promise.all; results.push; progressBar.update; i += parallel
Join ==
  /\ pc = "map"
  /\ Len(batchPromises) >= Len(batch)
  /\ AllSettled
  /\ results' = Push(results, [k \in DOMAIN batchPromises |->
                                 batchPromises[k].result])
  /\ progress' = Append(progress,
                   ProgressBarUpdate(Processed(i), Len(projectDirs)))
  /\ i' = NextI(i)
  /\ pc' = "loop"
  /\ UNCHANGED <<cmd, fetchOpt, parallel, projectDirs, repos, batch,
                 batchPromises, trace, faults, otherVars>>

\* ------------------------------------------------------- processProject
Job(k) == batchPromises[k]

Repo(k) == repos[Job(k).name]

\* one execSync call of job k ends with outcome o: the job's locals become
\* j, the working copy becomes r
Exec(k, command, o, j, r, isFault) ==
  /\ batchPromises' = [batchPromises EXCEPT ![k] = j]
  /\ trace' = [trace EXCEPT ![Job(k).name] = Append(@, <<command, o>>)]
  /\ repos' = [repos EXCEPT ![Job(k).name] = r]
  /\ faults' = IF isFault THEN faults + 1 ELSE faults
  /\ UNCHANGED <<jobVars, otherVars>>

MayFault == faults < MaxFaults

\* what a fetch that fails or is killed by the timeout may leave behind:
\* nothing fetched, or only the base's remote-tracking ref updated
AfterFailedFetch(r) == {r, [r EXCEPT !.rm = r.um]}

\* the failed fetch is recorded in error but fetchSuccess is set
FetchFailureKeepsSuccess(j) ==
  [j EXCEPT !.pc = "verifyBase", !.result.fetchSuccess = TRUE,
            !.result.error = "fetch"]

FetchFailureAborts(j) ==
  [j EXCEPT !.pc = "returned", !.result.fetchSuccess = FALSE,
            !.result.error = "process"]

\* catch (fetchError) { fetchSuccess = false; error = `Git fetch 失败` }
FetchFailure(j) ==
  [j EXCEPT !.pc = "verifyBase", !.result.fetchSuccess = FALSE,
            !.result.error = "fetch"]

\* execSync('git fetch --all --prune', {timeout: 30000})
Fetch(k) ==
  /\ Job(k).pc = "fetch"
  /\ \/ Exec(k, "fetch", "ok",
             [Job(k) EXCEPT !.pc = "verifyBase",
                            !.result.fetchSuccess = TRUE],
             [Repo(k) EXCEPT !.rb = Repo(k).ub, !.rm = Repo(k).um], FALSE)
     \/ /\ MayFault
        /\ \E r \in AfterFailedFetch(Repo(k)) :
             Exec(k, "fetch", "err", FetchFailure(Job(k)), r, TRUE)

ResolvedBaseSwapped(j, form) ==
  [j EXCEPT !.pc = "verifyBranch", !.result.masterExists = TRUE,
            !.actualMasterRef = IF form = "plain" THEN "origin" ELSE "plain"]

\* masterExists = true; actualMasterRef = baseBranch | `origin/${baseBranch}`
ResolvedBase(j, form) ==
  [j EXCEPT !.pc = "verifyBranch", !.result.masterExists = TRUE,
            !.actualMasterRef = form]

\* git rev-parse --verify ${baseBranch}
VerifyBase(k) ==
  /\ Job(k).pc = "verifyBase"
  /\ LET c == RevParse(Repo(k), "base", "plain") IN
     \/ /\ c # NoRef
        /\ Exec(k, "verifyBase", "ok", ResolvedBase(Job(k), "plain"),
                Repo(k), FALSE)
     \/ /\ c = NoRef
        /\ Exec(k, "verifyBase", "no",
                [Job(k) EXCEPT !.pc = "verifyBaseRemote"], Repo(k), FALSE)
     \/ /\ c # NoRef /\ MayFault
        /\ Exec(k, "verifyBase", "err",
                [Job(k) EXCEPT !.pc = "verifyBaseRemote"], Repo(k), TRUE)

\* git rev-parse --verify origin/${baseBranch}
VerifyBaseRemote(k) ==
  /\ Job(k).pc = "verifyBaseRemote"
  /\ LET c == RevParse(Repo(k), "base", "origin")
         missing == [Job(k) EXCEPT !.pc = "verifyBranch",
                                   !.result.masterExists = FALSE] IN
     \/ /\ c # NoRef
        /\ Exec(k, "verifyBaseRemote", "ok", ResolvedBase(Job(k), "origin"),
                Repo(k), FALSE)
     \/ /\ c = NoRef
        /\ Exec(k, "verifyBaseRemote", "no", missing, Repo(k), FALSE)
     \/ /\ c # NoRef /\ MayFault
        /\ Exec(k, "verifyBaseRemote", "err", missing, Repo(k), TRUE)

\* the first call of the ancestry block
FirstCheck == IF cmd = "merged" THEN "revBranch" ELSE "revMaster"

\* the ancestry block is entered when one of the two refs exists
AfterResolutionEither(res) ==
  IF res.branchExists \/ res.masterExists THEN FirstCheck ELSE "returned"

AfterResolutionAlways(res) == FirstCheck

\* if (result.branchExists && result.masterExists) { ... } return result
AfterResolution(res) ==
  IF res.branchExists /\ res.masterExists THEN FirstCheck ELSE "returned"

\* branchExists = true; actualBranchRef = branchName | `origin/${branchName}`
ResolvedBranch(j, form) ==
  LET res == [j.result EXCEPT !.branchExists = TRUE] IN
  [j EXCEPT !.pc = AfterResolution(res), !.result = res,
            !.actualBranchRef = form]

\* git rev-parse --verify ${branchName}
VerifyBranch(k) ==
  /\ Job(k).pc = "verifyBranch"
  /\ LET c == RevParse(Repo(k), "branch", "plain") IN
     \/ /\ c # NoRef
        /\ Exec(k, "verifyBranch", "ok", ResolvedBranch(Job(k), "plain"),
                Repo(k), FALSE)
     \/ /\ c = NoRef
        /\ Exec(k, "verifyBranch", "no",
                [Job(k) EXCEPT !.pc = "verifyBranchRemote"], Repo(k), FALSE)
     \/ /\ c # NoRef /\ MayFault
        /\ Exec(k, "verifyBranch", "err",
                [Job(k) EXCEPT !.pc = "verifyBranchRemote"], Repo(k), TRUE)

\* git rev-parse --verify origin/${branchName}
VerifyBranchRemote(k) ==
  /\ Job(k).pc = "verifyBranchRemote"
  /\ LET c == RevParse(Repo(k), "branch", "origin")
         res == [Job(k).result EXCEPT !.branchExists = FALSE]
         missing == [Job(k) EXCEPT !.pc = AfterResolution(res),
                                   !.result = res] IN
     \/ /\ c # NoRef
        /\ Exec(k, "verifyBranchRemote", "ok",
                ResolvedBranch(Job(k), "origin"), Repo(k), FALSE)
     \/ /\ c = NoRef
        /\ Exec(k, "verifyBranchRemote", "no", missing, Repo(k), FALSE)
     \/ /\ c # NoRef /\ MayFault
        /\ Exec(k, "verifyBranchRemote", "err", missing, Repo(k), TRUE)

\* catch (error) { result.error = `检查合并状态失败: ${error}` }
CheckFailed(j) == [j EXCEPT !.pc = "returned", !.result.error = "check"]

\* uptodate: result.lastMasterCommit = ...; result.lastBranchCommit = ...
WithLastCommits(j) ==
  IF cmd = "uptodate"
  THEN [j EXCEPT !.result.lastMasterCommit = j.masterCommit,
                 !.result.lastBranchCommit = j.branchCommit]
  ELSE j

\* git rev-parse ${actualBranchRef}
RevParseBranch(k) ==
  /\ Job(k).pc = "revBranch"
  /\ LET c == RevParse(Repo(k), "branch", Job(k).actualBranchRef) IN
     \/ /\ c # NoRef
        /\ Exec(k, "revBranch", "ok",
                WithLastCommits(
                  [Job(k) EXCEPT !.branchCommit = c,
                     !.pc = IF cmd = "merged" THEN "revMaster"
                            ELSE "masterDate"]),
                Repo(k), FALSE)
     \/ /\ c = NoRef \/ MayFault
        /\ Exec(k, "revBranch", "err", CheckFailed(Job(k)), Repo(k),
                c # NoRef)

\* git rev-parse ${actualMasterRef}
RevParseMaster(k) ==
  /\ Job(k).pc = "revMaster"
  /\ LET c == RevParse(Repo(k), "base", Job(k).actualMasterRef) IN
     \/ /\ c # NoRef
        /\ Exec(k, "revMaster", "ok",
                [Job(k) EXCEPT !.masterCommit = c,
                   !.pc = IF cmd = "merged" THEN "ancestor"
                          ELSE "revBranch"],
                Repo(k), FALSE)
     \/ /\ c = NoRef \/ MayFault
        /\ Exec(k, "revMaster", "err", CheckFailed(Job(k)), Repo(k),
                c # NoRef)

\* uptodate: git log -1 --format="%ci" ${masterCommit}
MasterDate(k) ==
  /\ Job(k).pc = "masterDate"
  /\ \/ Exec(k, "masterDate", "ok",
             [Job(k) EXCEPT !.pc = "branchDate",
                            !.result.lastMasterDate = TRUE],
             Repo(k), FALSE)
     \/ /\ MayFault
        /\ Exec(k, "masterDate", "err", [Job(k) EXCEPT !.pc = "branchDate"],
                Repo(k), TRUE)

\* uptodate: git log -1 --format="%ci" ${branchCommit}
BranchDate(k) ==
  /\ Job(k).pc = "branchDate"
  /\ \/ Exec(k, "branchDate", "ok",
             [Job(k) EXCEPT !.pc = "ancestor",
                            !.result.lastBranchDate = TRUE],
             Repo(k), FALSE)
     \/ /\ MayFault
        /\ Exec(k, "branchDate", "err", [Job(k) EXCEPT !.pc = "ancestor"],
                Repo(k), TRUE)

\* the exit status 0 of git merge-base --is-ancestor for this command's
\* direction: merged asks branch -> base, uptodate asks base -> branch
AncestryHoldsReversed(j) ==
  IF cmd = "merged"
  THEN IsAncestor(j.masterCommit, j.branchCommit)
  ELSE IsAncestor(j.branchCommit, j.masterCommit)

AncestryHolds(j) ==
  IF cmd = "merged"
  THEN IsAncestor(j.branchCommit, j.masterCommit)
  ELSE IsAncestor(j.masterCommit, j.branchCommit)

\* merged: isMerged = true; uptodate: isUpToDate = true, hasMasterChanges = false
Satisfied(j) ==
  IF cmd = "merged"
  THEN [j EXCEPT !.pc = "mergeInfo", !.result.isMerged = TRUE]
  ELSE [j EXCEPT !.pc = "returned", !.result.isUpToDate = TRUE,
                 !.result.hasMasterChanges = FALSE]

\* the catch of the ancestry call
\* merged: isMerged = false; uptodate: isUpToDate = false, hasMasterChanges = true
Unsatisfied(j) ==
  IF cmd = "merged"
  THEN [j EXCEPT !.pc = "returned", !.result.isMerged = FALSE]
  ELSE [j EXCEPT !.pc = "revList", !.result.isUpToDate = FALSE,
                 !.result.hasMasterChanges = TRUE]

\* git merge-base --is-ancestor <commit> <commit>
Ancestor(k) ==
  /\ Job(k).pc = "ancestor"
  /\ \/ /\ AncestryHolds(Job(k))
        /\ Exec(k, "ancestor", "ok", Satisfied(Job(k)), Repo(k), FALSE)
     \/ /\ ~AncestryHolds(Job(k))
        /\ Exec(k, "ancestor", "no", Unsatisfied(Job(k)), Repo(k), FALSE)
     \/ /\ MayFault
        /\ Exec(k, "ancestor", "err", Unsatisfied(Job(k)), Repo(k), TRUE)

\* a failed merge commit lookup is recorded like a failed check
LookupFailedRecorded(j) == CheckFailed(j)

\* merged: catch { } around the merge commit lookup: the failure is ignored
LookupFailed(j) == [j EXCEPT !.pc = "returned"]

\* merged: git log --oneline --merges --grep="Merge.*${branchName}"
\*         ${baseBranch} | head -1
\* The log walks the requested base name; a line comes back when MergeLog
\* is not empty.
MergeInfo(k) ==
  /\ Job(k).pc = "mergeInfo"
  /\ \/ /\ MergeLog(Repo(k)) # {}
        /\ Exec(k, "mergeInfo", "ok",
                [Job(k) EXCEPT !.pc = "mergeDate",
                               !.result.mergeCommit = TRUE],
                Repo(k), FALSE)
     \/ /\ MergeLog(Repo(k)) = {}
        /\ Exec(k, "mergeInfo", "no", [Job(k) EXCEPT !.pc = "returned"],
                Repo(k), FALSE)
     \/ /\ MayFault
        /\ Exec(k, "mergeInfo", "err", LookupFailed(Job(k)), Repo(k), TRUE)

\* merged: git log -1 --format="%ci" ${result.mergeCommit}
MergeDate(k) ==
  /\ Job(k).pc = "mergeDate"
  /\ \/ Exec(k, "mergeDate", "ok",
             [Job(k) EXCEPT !.pc = "returned", !.result.mergeDate = TRUE],
             Repo(k), FALSE)
     \/ /\ MayFault
        /\ Exec(k, "mergeDate", "err", [Job(k) EXCEPT !.pc = "returned"],
                Repo(k), TRUE)

\* uptodate: `git rev-list --count ${branchName}..${baseBranch}` names the
\* requested refs, not actualBranchRef / actualMasterRef
BehindRange(j, r) ==
  <<RevParse(r, "branch", "plain"), RevParse(r, "base", "plain")>>

\* uptodate: behindCommits = parseInt(behindCount) || 0, or 0 in the catch
RevList(k) ==
  /\ Job(k).pc = "revList"
  /\ LET range == BehindRange(Job(k), Repo(k))
         zero == [Job(k) EXCEPT !.pc = "returned",
                                !.result.behindCommits = 0] IN
     \/ /\ range[1] # NoRef /\ range[2] # NoRef
        /\ Exec(k, "revList", "ok",
                [Job(k) EXCEPT !.pc = "returned",
                   !.result.behindCommits = RevListCount(range[1], range[2])],
                Repo(k), FALSE)
     \/ /\ range[1] = NoRef \/ range[2] = NoRef
        /\ Exec(k, "revList", "no", zero, Repo(k), FALSE)
     \/ /\ MayFault
        /\ Exec(k, "revList", "err", zero, Repo(k), TRUE)

\* the command action's steps and, for some job of the wave, one execSync
\* call of processProject
Next ==
  \/ LoopEnter
  \/ LoopExit
  \/ Invoke
  \/ Join
  \/ \E k \in DOMAIN batchPromises : Fetch(k)
  \/ \E k \in DOMAIN batchPromises : VerifyBase(k)
  \/ \E k \in DOMAIN batchPromises : VerifyBaseRemote(k)
  \/ \E k \in DOMAIN batchPromises : VerifyBranch(k)
  \/ \E k \in DOMAIN batchPromises : VerifyBranchRemote(k)
  \/ \E k \in DOMAIN batchPromises : RevParseBranch(k)
  \/ \E k \in DOMAIN batchPromises : RevParseMaster(k)
  \/ \E k \in DOMAIN batchPromises : MasterDate(k)
  \/ \E k \in DOMAIN batchPromises : BranchDate(k)
  \/ \E k \in DOMAIN batchPromises : Ancestor(k)
  \/ \E k \in DOMAIN batchPromises : MergeInfo(k)
  \/ \E k \in DOMAIN batchPromises : MergeDate(k)
  \/ \E k \in DOMAIN batchPromises : RevList(k)

\* a batch run over up to MaxRepos repositories
Spec == Init /\ [][Next]_vars

\* one repository, every combination of its refs
SpecInspect == InitInspect /\ [][Next]_vars

\* ------------------------------------------------------- a second invocation

\* the result list survives from one invocation to the next
StaleResults == results

\* the result list every invocation starts from
FreshResults == <<>>

\* the command is invoked again once the first invocation has finished:
\* everything the action declares is created anew, the repositories are
\* what the first invocation left behind
RunAgain ==
  /\ pc = "done"
  /\ run = 1
  /\ run' = 2
  /\ firstResults' = results
  /\ results' = FreshResults
  /\ progress' = <<>>
  /\ i' = 0
  /\ pc' = "loop"
  /\ batch' = <<>>
  /\ batchPromises' = <<>>
  /\ trace' = [n \in DOMAIN trace |-> <<>>]
  /\ UNCHANGED <<cmd, fetchOpt, parallel, projectDirs, repos, faults,
                 setupVars, syncVars, updateVars>>

NextTwice ==
  \/ Next
  \/ RunAgain

\* two invocations of the same command over the same repositories
SpecTwice == Init /\ [][NextTwice]_vars

\* ------------------------------------------------------------- discovery

\* what an entry of the target directory may be: a plain file, a directory
\* without .git, a directory with .git, a symbolic link whose target is gone
EntryKinds == {"file", "dir", "repo", "dangling"}

\* fs.statSync(itemPath) throws ENOENT
StatThrows(e) == e = "dangling"

\* fs.statSync(itemPath).isDirectory()
IsDirectory(e) == e \in {"dir", "repo"}

\* fs.existsSync(path.join(itemPath, '.git'))
HasGit(e) == e = "repo"

RECURSIVE Filter(_, _)
\* Array.prototype.filter over the entries from position k on: the names
\* (positions) of the entries that pass, in directory order
Filter(es, k) ==
  IF k > Len(es) THEN <<>>
  ELSE IF IsDirectory(es[k]) /\ HasGit(es[k])
       THEN <<k>> \o Filter(es, k + 1)
       ELSE Filter(es, k + 1)

\* the check of the target directory never fails
TargetMissingIgnored == FALSE

\* !fs.existsSync(targetDir)
TargetMissing == ~targetExists

\* the working copies under the target directory
ReposOf(es) == {k \in DOMAIN es : es[k] = "repo"}

InitDiscover ==
  /\ cmd \in {"merged", "uptodate"}
  /\ fetchOpt \in BOOLEAN
  /\ parallel \in 1..MaxParallel
  /\ optParallel = <<DigitChars[parallel + 1]>>
  /\ parallelNaN = FALSE
  /\ targetExists \in BOOLEAN
  /\ \E n \in 0..MaxEntries :
       entries \in [1..n -> EntryKinds]
  /\ ~targetExists => entries = <<>>
  /\ repos \in [ReposOf(entries) -> BatchRepoStates]
  /\ projectDirs = <<>>
  /\ run = 1
  /\ firstResults = <<>>
  /\ SyncIdle
  /\ UpdateIdle
  /\ i = 0
  /\ pc = "start"
  /\ batch = <<>>
  /\ batchPromises = <<>>
  /\ results = <<>>
  /\ progress = <<>>
  /\ trace = [k \in DOMAIN repos |-> <<>>]
  /\ faults = 0

\* if (!fs.existsSync(targetDir)) { console.error(...); process.exit(1) }
CheckTargetDir ==
  /\ pc = "start"
  /\ pc' = IF TargetMissing THEN "exit" ELSE "discover"
  /\ UNCHANGED <<cmd, fetchOpt, parallel, projectDirs, repos, i, batch,
                 batchPromises, results, progress, trace, faults, otherVars>>

\* projectDirs = fs.readdirSync(targetDir).filter(...): readdirSync throws
\* when the directory is missing and statSync throws on an entry whose
\* target is gone; the exception leaves the action through its catch, which
\* prints it and calls process.exit(1)
ReadDir ==
  /\ pc = "discover"
  /\ IF ~targetExists \/ \E k \in DOMAIN entries : StatThrows(entries[k])
     THEN /\ pc' = "failed"
          /\ UNCHANGED projectDirs
     ELSE /\ pc' = "loop"
          /\ projectDirs' = Filter(entries, 1)
  /\ UNCHANGED <<cmd, fetchOpt, parallel, repos, i, batch, batchPromises,
                 results, progress, trace, faults, otherVars>>

NextDiscover ==
  \/ CheckTargetDir
  \/ ReadDir
  \/ Next

\* a run from the check of the target directory on
SpecDiscover == InitDiscover /\ [][NextDiscover]_vars

\* ---------------------------------------------------------- the -p option

\* the characters the -p value is drawn from
OptChars == {"-", "0", "1", "2", "x"}

\* the strings commander may hand over as options.parallel
OptStrings == UNION {[1..n -> OptChars] : n \in 0..MaxOptLen}

\* the letters that are digits in radix 16
HexLower == <<"a", "b", "c", "d", "e", "f">>

HexUpper == <<"A", "B", "C", "D", "E", "F">>

\* what parseInt takes for a character that is no digit in any radix
NotADigit == 36

\* the value of a character as a digit
DigitValue(c) ==
  IF \E k \in DOMAIN DigitChars : DigitChars[k] = c
  THEN (CHOOSE k \in DOMAIN DigitChars : DigitChars[k] = c) - 1
  ELSE IF \E k \in DOMAIN HexLower : HexLower[k] = c
  THEN 9 + (CHOOSE k \in DOMAIN HexLower : HexLower[k] = c)
  ELSE IF \E k \in DOMAIN HexUpper : HexUpper[k] = c
  THEN 9 + (CHOOSE k \in DOMAIN HexUpper : HexUpper[k] = c)
  ELSE NotADigit

RECURSIVE TrimStart(_)
\* parseInt skips leading white space
TrimStart(s) ==
  IF s # <<>> /\ Head(s) = " " THEN TrimStart(Tail(s)) ELSE s

RECURSIVE ParseDigits(_, _, _)
\* the number written by the longest prefix of s made of digits of the radix
ParseDigits(s, radix, acc) ==
  IF s = <<>> \/ DigitValue(Head(s)) >= radix
  THEN acc
  ELSE ParseDigits(Tail(s), radix, acc * radix + DigitValue(Head(s)))

\* parseInt(str) with no radix given: white space, an optional sign, an
\* optional 0x / 0X that selects radix 16, then the longest run of digits;
\* NaN when that run is empty.  nan tells NaN apart, n is the number.
ParseInt(str) ==
  LET t == TrimStart(str)
      neg == t # <<>> /\ Head(t) = "-"
      u == IF t # <<>> /\ Head(t) \in {"-", "+"} THEN Tail(t) ELSE t
      hex == Len(u) >= 2 /\ u[1] = "0" /\ u[2] \in {"x", "X"}
      radix == IF hex THEN 16 ELSE 10
      v == IF hex THEN Tail(Tail(u)) ELSE u
      nan == v = <<>> \/ DigitValue(Head(v)) >= radix
      n == ParseDigits(v, radix, 0)
  IN  [nan |-> nan, n |-> IF nan THEN 0 ELSE IF neg THEN 0 - n ELSE n]

InitParallel ==
  /\ cmd \in {"merged", "uptodate", "branch"}
  /\ fetchOpt \in BOOLEAN
  /\ optParallel \in OptStrings
  /\ parallel = 0
  /\ parallelNaN = FALSE
  /\ targetExists = TRUE
  /\ entries = <<>>
  /\ projectDirs = <<>>
  /\ repos = <<>>
  /\ run = 1
  /\ firstResults = <<>>
  /\ SyncIdle
  /\ UpdateIdle
  /\ i = 0
  /\ pc = "options"
  /\ batch = <<>>
  /\ batchPromises = <<>>
  /\ results = <<>>
  /\ progress = <<>>
  /\ trace = <<>>
  /\ faults = 0

\* const parallel = parseInt(options.parallel): the value goes to the wave
\* loop as it is
ParseParallel ==
  /\ pc = "options"
  /\ parallel' = ParseInt(optParallel).n
  /\ parallelNaN' = ParseInt(optParallel).nan
  /\ pc' = "parsed"
  /\ UNCHANGED <<cmd, fetchOpt, projectDirs, repos, i, batch, batchPromises,
                 results, progress, trace, faults, optParallel, targetExists,
                 entries, rerunVars, syncVars, updateVars>>

NextParallel == ParseParallel

\* the reading of the -p option, for every string it may hold
SpecParallel == InitParallel /\ [][NextParallel]_vars

\* ------------------------------------------------------------------- sync

\* what may be at path.join(targetDir, repo.name)
DiskKinds == {"absent", "git", "dir"}

\* the name lists GitLab may return, up to renaming: projects of different
\* groups may carry the same name
NameLists ==
  UNION {{s \in [1..n -> 1..n] :
            \A k \in 1..n :
              s[k] <= 1 + Cardinality({s[h] : h \in 1..(k - 1)})} :
         n \in 0..MaxRepos}

InitSync ==
  /\ cmd = "sync"
  /\ fetchOpt = FALSE
  /\ parallel = 1
  /\ optParallel = <<"1">>
  /\ parallelNaN = FALSE
  /\ targetExists = TRUE
  /\ entries = <<>>
  /\ projectDirs = <<>>
  /\ repos = <<>>
  /\ run = 1
  /\ firstResults = <<>>
  /\ i = 0
  /\ pc = "idle"
  /\ batch = <<>>
  /\ batchPromises = <<>>
  /\ results = <<>>
  /\ progress = <<>>
  /\ trace = <<>>
  /\ faults = 0
  /\ sDryRun \in BOOLEAN
  /\ sParallel \in 1..MaxParallel
  /\ filteredRepos \in NameLists
  /\ disk \in [{filteredRepos[k] : k \in DOMAIN filteredRepos} -> DiskKinds]
  /\ targetDirOnDisk \in BOOLEAN
  /\ (\E n \in DOMAIN disk : disk[n] # "absent") => targetDirOnDisk
  /\ repoInfos = <<>>
  /\ sPc = "start"
  /\ sI = 0
  /\ sJobs = <<>>
  /\ sResults = <<>>
  /\ gitCalls = [k \in DOMAIN filteredRepos |-> <<>>]
  /\ UpdateIdle

\* repoInfos = filteredRepos.map(...): exists and isGitRepo are read from
\* the disk once, before anything is processed
RepoInfo(name) ==
  [name |-> name,
   exists |-> disk[name] # "absent",
   isGitRepo |-> disk[name] = "git"]

\* the dry-run option is not looked at
DryRunIgnored == FALSE

\* options.dryRun
DryRun == sDryRun

\* if (filteredRepos.length === 0) { ...; return }
SyncEmpty ==
  /\ sPc = "start"
  /\ filteredRepos = <<>>
  /\ sPc' = "returned"
  /\ UNCHANGED <<mainVars, faults, setupVars, rerunVars, updateVars,
                 sDryRun, sParallel,
                 filteredRepos, disk, targetDirOnDisk, repoInfos, sI, sJobs,
                 sResults, gitCalls>>

\* if (options.dryRun) { print what would be done; return }
SyncPreview ==
  /\ sPc = "start"
  /\ filteredRepos # <<>>
  /\ DryRun
  /\ repoInfos' = [k \in DOMAIN filteredRepos |-> RepoInfo(filteredRepos[k])]
  /\ sPc' = "previewed"
  /\ UNCHANGED <<mainVars, faults, setupVars, rerunVars, updateVars,
                 sDryRun, sParallel,
                 filteredRepos, disk, targetDirOnDisk, sI, sJobs, sResults,
                 gitCalls>>

\* otherwise: fs.mkdirSync(targetDir) when it is missing, then
\* processRepositoriesInParallel
SyncPrepare ==
  /\ sPc = "start"
  /\ filteredRepos # <<>>
  /\ ~DryRun
  /\ repoInfos' = [k \in DOMAIN filteredRepos |-> RepoInfo(filteredRepos[k])]
  /\ targetDirOnDisk' = TRUE
  /\ sI' = 0
  /\ sPc' = "chunks"
  /\ UNCHANGED <<mainVars, faults, setupVars, rerunVars, updateVars,
                 sDryRun, sParallel,
                 filteredRepos, disk, sJobs, sResults, gitCalls>>

\* the result of a sync job that has not returned yet
NoSyncResult(name) == [name |-> name, action |-> "none", success |-> FALSE]

\* the job reports the repository as skipped
SyncErrorSkipped(name) ==
  [name |-> name, action |-> "skipped", success |-> TRUE]

\* the 'error' result of processRepository
SyncError(name) == [name |-> name, action |-> "error", success |-> FALSE]

\* processRepository up to its first await: the job spawns git clone, or
\* git fetch --all, or returns the 'error' result at once
StartJob(pos) ==
  LET info == repoInfos[pos]
  IN  [pos |-> pos,
       name |-> info.name,
       pc |-> IF ~info.exists THEN "clone"
              ELSE IF info.isGitRepo THEN "fetch"
              ELSE "returned",
       result |-> IF info.exists /\ ~info.isGitRepo
                  THEN SyncError(info.name)
                  ELSE NoSyncResult(info.name)]

\* for (const chunk of chunks): chunk.map(processRepository) calls every
\* job of the chunk in turn, each running up to its first spawn
SyncLaunch ==
  /\ sPc = "chunks"
  /\ sI < Len(repoInfos)
  /\ LET n == Len(Slice(repoInfos, sI, sI + sParallel))
     IN  /\ sJobs' = [k \in 1..n |-> StartJob(sI + k)]
         /\ gitCalls' = [p \in DOMAIN gitCalls |->
                          IF p \in (sI + 1)..(sI + n)
                             /\ StartJob(p).pc # "returned"
                          THEN Append(gitCalls[p], StartJob(p).pc)
                          ELSE gitCalls[p]]
  /\ sPc' = "await"
  /\ UNCHANGED <<mainVars, faults, setupVars, rerunVars, updateVars,
                 sDryRun, sParallel,
                 filteredRepos, disk, targetDirOnDisk, repoInfos, sI, sResults>>

\* every chunk has been processed
SyncLoopExit ==
  /\ sPc = "chunks"
  /\ sI >= Len(repoInfos)
  /\ sPc' = "shown"
  /\ UNCHANGED <<mainVars, faults, setupVars, rerunVars, updateVars,
                 sDryRun, sParallel,
                 filteredRepos, disk, targetDirOnDisk, repoInfos, sI, sJobs,
                 sResults, gitCalls>>

\* the close event of the git command job k waits for: exit code 0 resolves
\* and the job goes on to next (spawning it) or returns its result; any
\* other code rejects, and the catch returns the 'error' result
Close(k, ok, next, action, newDisk, isFault) ==
  LET j == sJobs[k]
  IN  /\ sPc = "await"
      /\ sJobs' = [sJobs EXCEPT ![k] =
                     IF ok
                     THEN [j EXCEPT !.pc = next,
                                    !.result.action = action,
                                    !.result.success = (next = "returned")]
                     ELSE [j EXCEPT !.pc = "returned",
                                    !.result = SyncError(j.name)]]
      /\ gitCalls' = IF ok /\ next # "returned"
                     THEN [gitCalls EXCEPT ![j.pos] = Append(@, next)]
                     ELSE gitCalls
      /\ disk' = newDisk
      /\ faults' = IF isFault THEN faults + 1 ELSE faults
      /\ UNCHANGED <<mainVars, setupVars, rerunVars, updateVars, sDryRun,
                     sParallel,
                     filteredRepos, targetDirOnDisk, repoInfos, sPc, sI,
                     sResults>>

\* git clone <gitUrl> <localPath>: creates the working copy; fails when the
\* path has come to exist in the meantime
SyncClone(k) ==
  /\ sJobs[k].pc = "clone"
  /\ \/ /\ disk[sJobs[k].name] = "absent"
        /\ Close(k, TRUE, "returned", "cloned",
                 [disk EXCEPT ![sJobs[k].name] = "git"], FALSE)
     \/ /\ disk[sJobs[k].name] # "absent"
        /\ Close(k, FALSE, "returned", "error", disk, FALSE)
     \/ /\ disk[sJobs[k].name] = "absent"
        /\ MayFault
        /\ Close(k, FALSE, "returned", "error", disk, TRUE)

\* git fetch --all, then git checkout
SyncFetch(k) ==
  /\ sJobs[k].pc = "fetch"
  /\ \/ Close(k, TRUE, "checkout", "none", disk, FALSE)
     \/ /\ MayFault
        /\ Close(k, FALSE, "returned", "error", disk, TRUE)

\* git checkout <branch>, then git pull
SyncCheckout(k) ==
  /\ sJobs[k].pc = "checkout"
  /\ \/ Close(k, TRUE, "pull", "none", disk, FALSE)
     \/ /\ MayFault
        /\ Close(k, FALSE, "returned", "error", disk, TRUE)

\* git pull, then the 'updated' result
SyncPull(k) ==
  /\ sJobs[k].pc = "pull"
  /\ \/ Close(k, TRUE, "returned", "updated", disk, FALSE)
     \/ /\ MayFault
        /\ Close(k, FALSE, "returned", "error", disk, TRUE)

\* await Promise.all(promises); results.push(...chunkResults)
SyncJoin ==
  /\ sPc = "await"
  /\ \A k \in DOMAIN sJobs : sJobs[k].pc = "returned"
  /\ sResults' = sResults \o [k \in DOMAIN sJobs |-> sJobs[k].result]
  /\ sJobs' = <<>>
  /\ sI' = sI + sParallel
  /\ sPc' = "chunks"
  /\ UNCHANGED <<mainVars, faults, setupVars, rerunVars, updateVars,
                 sDryRun, sParallel,
                 filteredRepos, disk, targetDirOnDisk, repoInfos, gitCalls>>

NextSync ==
  \/ SyncEmpty
  \/ SyncPreview
  \/ SyncPrepare
  \/ SyncLaunch
  \/ SyncLoopExit
  \/ SyncJoin
  \/ \E k \in DOMAIN sJobs : SyncClone(k)
  \/ \E k \in DOMAIN sJobs : SyncFetch(k)
  \/ \E k \in DOMAIN sJobs : SyncCheckout(k)
  \/ \E k \in DOMAIN sJobs : SyncPull(k)

\* a sync run over up to MaxRepos repositories
SpecSync == InitSync /\ [][NextSync]_vars

\* ----------------------------------------------------------- update check

\* the versions the registry may answer with
Versions == {1, 2}

\* the hours that may pass between two calls of checkForUpdates
Deltas == {0, 1, CHECK_INTERVAL - 1, CHECK_INTERVAL}

\* the file as saveUpdateCheckData writes it
CheckFile(lastCheck, latestVersion) ==
  [present |-> TRUE, lastCheck |-> lastCheck,
   latestVersion |-> latestVersion, dismissed |-> FALSE]

\* readUpdateCheckData: the parsed file, { lastCheck: 0 } without one
ReadUpdateCheckData(file) ==
  IF file.present THEN file ELSE [file EXCEPT !.lastCheck = 0]

\* the interval is never looked at
SkipsNever(force, now, lastCheck) == FALSE

\* if (!force && now - checkData.lastCheck < CHECK_INTERVAL) ... return
Skips(force, now, lastCheck) ==
  ~force /\ now - lastCheck < CHECK_INTERVAL

\* the file a run may find: none, or one an earlier check wrote a day ago,
\* an hour ago, or an hour ahead of a clock that has been set back since
InitUpdate ==
  /\ cmd = "upgrade"
  /\ fetchOpt = FALSE
  /\ parallel = 1
  /\ optParallel = <<"1">>
  /\ parallelNaN = FALSE
  /\ targetExists = TRUE
  /\ entries = <<>>
  /\ projectDirs = <<>>
  /\ repos = <<>>
  /\ run = 1
  /\ firstResults = <<>>
  /\ i = 0
  /\ pc = "idle"
  /\ batch = <<>>
  /\ batchPromises = <<>>
  /\ results = <<>>
  /\ progress = <<>>
  /\ trace = <<>>
  /\ faults = 0
  /\ SyncIdle
  /\ uClock = 2 * CHECK_INTERVAL
  /\ uNow = 0
  /\ uForce = FALSE
  /\ uValid = TRUE
  /\ uFile \in {NoFile} \cup
               {CheckFile(uClock - d, v) :
                  d \in {CHECK_INTERVAL, 1, 0 - 1}, v \in Versions}
  /\ uPc = "idle"
  /\ uRequests = 0
  /\ uChecks = 0
  /\ uLatest = 0

\* checkForUpdates up to its return or to the await of getLatestVersion,
\* which sends the request
Check ==
  /\ uPc = "idle"
  /\ uChecks < MaxChecks
  /\ uChecks' = uChecks + 1
  /\ uLatest' = 0
  /\ \E d \in Deltas, force \in BOOLEAN, valid \in BOOLEAN :
       LET now == uClock + d
           checkData == ReadUpdateCheckData(uFile)
       IN  /\ uClock' = now
           /\ uNow' = now
           /\ uForce' = force
           /\ uValid' = valid
           /\ IF ~valid \/ Skips(force, now, checkData.lastCheck)
              THEN /\ uPc' = "idle"
                   /\ uRequests' = uRequests
              ELSE /\ uPc' = "request"
                   /\ uRequests' = uRequests + 1
  /\ UNCHANGED <<mainVars, faults, setupVars, rerunVars, syncVars, uFile>>

\* the registry answers with a version: saveUpdateCheckData({ lastCheck: now,
\* latestVersion, dismissed: false }), whose write may fail unnoticed
Resolved ==
  /\ uPc = "request"
  /\ \E d \in {0, 1} : uClock' = uClock + d
  /\ \E v \in Versions :
       /\ uLatest' = v
       /\ uFile' \in {CheckFile(uNow, v), uFile}
  /\ uPc' = "idle"
  /\ UNCHANGED <<mainVars, faults, setupVars, rerunVars, syncVars, uNow,
                 uForce, uValid, uRequests, uChecks>>

\* the request fails (status, body, network error, timeout): the catch
\* returns
Rejected ==
  /\ uPc = "request"
  /\ \E d \in {0, 1} : uClock' = uClock + d
  /\ uPc' = "idle"
  /\ UNCHANGED <<mainVars, faults, setupVars, rerunVars, syncVars, uNow,
                 uForce, uValid, uFile, uRequests, uChecks, uLatest>>

NextUpdate ==
  \/ Check
  \/ Resolved
  \/ Rejected

\* up to MaxChecks update checks in a row
SpecUpdate == InitUpdate /\ [][NextUpdate]_vars

\* ------------------------------------------------ the wave loops, to the end

InitWaves == Init \/ InitSync

NextWaves ==
  \/ Next
  \/ NextSync

\* a run of merged / uptodate or of sync in which every subprocess ends
\* and every continuation is scheduled
SpecWaves == InitWaves /\ [][NextWaves]_vars /\ WF_vars(NextWaves)

\* --------------------------------------------------------- displayResults
\* the summary categories, as sets of positions of the result list

\* merged: results.filter(r => r.isMerged)
MergedResults(rs) == {k \in DOMAIN rs : rs[k].isMerged}

\* merged: results.filter(r => r.branchExists && r.masterExists && !r.isMerged)
NotMergedResults(rs) ==
  {k \in DOMAIN rs :
     rs[k].branchExists /\ rs[k].masterExists /\ ~rs[k].isMerged}

\* uptodate: results.filter(r => r.isUpToDate)
UpToDateResults(rs) == {k \in DOMAIN rs : rs[k].isUpToDate}

\* uptodate: results.filter(r => r.hasMasterChanges && r.behindCommits > 0)
BehindResults(rs) ==
  {k \in DOMAIN rs : rs[k].hasMasterChanges /\ rs[k].behindCommits > 0}

\* results.filter(r => r.error)
ErrorResults(rs) == {k \in DOMAIN rs : rs[k].error # "none"}

\* ------------------------------------------------------------- properties
Called(t, c) == \E x \in DOMAIN t : t[x][1] = c

Out(t, c) ==
  IF Called(t, c) THEN t[CHOOSE x \in DOMAIN t : t[x][1] = c][2] ELSE "none"

Returned == {k \in DOMAIN batchPromises : Job(k).pc = "returned"}

PositionOf(name) == CHOOSE p \in DOMAIN projectDirs : projectDirs[p] = name

WaveOf(p) == (p - 1) \div parallel

\* C1: the result list holds the results of a prefix of the discovered
\* repositories, in discovery order, and when the run is over it holds
\* exactly one result per discovered repository.
C1_DiscoveryOrder ==
  /\ Len(results) <= Len(projectDirs)
  /\ \A k \in DOMAIN results : results[k].name = projectDirs[k]
  /\ pc = "done" => Len(results) = Len(projectDirs)

C1_Witness ==
  /\ pc = "done"
  /\ parallel = 2
  /\ Len(projectDirs) = 3
  /\ [k \in DOMAIN results |-> results[k].name] = projectDirs

\* C3: the number of jobs started and not yet returned never exceeds the
\* concurrency limit.
C3_ConcurrencyBound == Cardinality(InFlight) <= parallel

C3_Witness ==
  /\ parallel = 1
  /\ Len(projectDirs) >= 2
  /\ Len(results) >= 1
  /\ Cardinality(InFlight) = 1

\* C4 (barrier): when a job is started, every repository of an earlier wave
\* already has its result in the result list.
C4_EarlierWavesJoined ==
  \A k \in DOMAIN batchPromises :
    \A q \in DOMAIN projectDirs :
      WaveOf(q) < WaveOf(PositionOf(Job(k).name)) =>
        /\ q <= Len(results)
        /\ results[q].name = projectDirs[q]

\* C4 (join): the result list changes only when every job of the wave has
\* been called and has returned, and then it grows by that wave's results.
C4_AppendAtJoin ==
  results' # results =>
    /\ Len(batch) > 0
    /\ Len(batchPromises) = Len(batch)
    /\ \A k \in DOMAIN batchPromises :
         /\ Job(k).pc = "returned"
         /\ Job(k).name = batch[k]
    /\ results' = results \o [k \in DOMAIN batch |-> Job(k).result]

\* C4: no job of wave N+1 is started before every job of wave N has
\* completed, and results are appended only at a wave's join point.
C4_WaveBarrier == [](C4_EarlierWavesJoined) /\ [][C4_AppendAtJoin]_vars

C4_Witness ==
  /\ parallel = 2
  /\ Len(results) = 2
  /\ pc = "map"
  /\ Len(batchPromises) = 1
  /\ Job(1).name = projectDirs[3]

\* a failure of the kinds the result is to report: the sync, the commit
\* resolution or the ancestry check ended with a tool error
UnexpectedError(t) ==
  \E x \in DOMAIN t :
    /\ t[x][2] = "err"
    /\ t[x][1] \in {"fetch", "revBranch", "revMaster", "ancestor"}

\* C2: when the run is over every discovered repository has its result, and
\* the result of a repository whose inspection hit a tool error has its
\* error field populated.
C2_FailureIsolated ==
  pc = "done" =>
    \A p \in DOMAIN projectDirs :
      /\ p <= Len(results)
      /\ results[p].name = projectDirs[p]
      /\ UnexpectedError(trace[projectDirs[p]]) => results[p].error # "none"

\* C5: a job that is inside a subprocess call does not keep the remaining
\* jobs of its wave from being started.
C5_SiblingsNotBlocked ==
  (pc = "map" /\ InFlight # {} /\ Len(batchPromises) < Len(batch))
    => Launchable # {}

\* a tool error in a call other than the fetch
ToolError(t) == \E x \in DOMAIN t : t[x][2] = "err" /\ t[x][1] # "fetch"

\* the commits the refs chosen by the resolution point at
ResolvedBranchCommit(k) == RevParse(Repo(k), "branch", Job(k).actualBranchRef)

ResolvedBaseCommit(k) == RevParse(Repo(k), "base", Job(k).actualMasterRef)

\* C6: with both refs present and no tool error, merged reports isMerged iff
\* the resolved branch commit is reachable from the resolved base commit,
\* and uptodate reports isUpToDate iff the resolved base commit is reachable
\* from the resolved branch commit.
C6_VerdictIsAncestry ==
  \A k \in Returned :
    (/\ Job(k).result.branchExists
     /\ Job(k).result.masterExists
     /\ ~ToolError(trace[Job(k).name])) =>
      IF cmd = "merged"
      THEN Job(k).result.isMerged
             = (ResolvedBranchCommit(k) \in Reach(ResolvedBaseCommit(k)))
      ELSE Job(k).result.isUpToDate
             = (ResolvedBaseCommit(k) \in Reach(ResolvedBranchCommit(k)))

C6_Witness ==
  \E k \in Returned :
    /\ cmd = "merged"
    /\ ~ToolError(trace[Job(k).name])
    /\ Job(k).result.isMerged
    /\ Job(k).actualBranchRef = "origin"
    /\ ResolvedBranchCommit(k) # ResolvedBaseCommit(k)

\* the resolution of one ref, read off the calls made: plain and remote are
\* the two verify commands, exists and form what the job recorded
ResolutionAsClaimed(t, plain, remote, exists, form, err) ==
  /\ Called(t, plain)
  /\ Called(t, remote) <=> Out(t, plain) # "ok"
  /\ exists <=> (Out(t, plain) = "ok" \/ Out(t, remote) = "ok")
  /\ Out(t, plain) = "ok" => form = "plain"
  /\ (Out(t, plain) # "ok" /\ Out(t, remote) = "ok") => form = "origin"
  /\ ~exists => err \in {"none", "fetch"}
  /\ err = "fetch" => Out(t, "fetch") = "err"

ResolutionPcs ==
  {"fetch", "verifyBase", "verifyBaseRemote", "verifyBranch",
   "verifyBranchRemote"}

\* C7: for either ref, origin/<name> is verified iff the plain name failed to
\* verify; the ref exists iff one of the two verified; the resolved name is
\* the plain one whenever it verified and the origin one only otherwise; a
\* ref that is missing records no error; and a plain name that the working
\* copy has always verifies unless the tool fails.
C7_Resolution ==
  \A k \in DOMAIN batchPromises :
    Job(k).pc \notin ResolutionPcs =>
      LET t == trace[Job(k).name] IN
      /\ ResolutionAsClaimed(t, "verifyBase", "verifyBaseRemote",
                             Job(k).result.masterExists,
                             Job(k).actualMasterRef, Job(k).result.error)
      /\ ResolutionAsClaimed(t, "verifyBranch", "verifyBranchRemote",
                             Job(k).result.branchExists,
                             Job(k).actualBranchRef, Job(k).result.error)
      /\ ~ToolError(t) =>
           /\ Job(k).result.masterExists
                <=> (Repo(k).lm # NoRef \/ Repo(k).rm # NoRef)
           /\ Job(k).result.branchExists
                <=> (Repo(k).lb # NoRef \/ Repo(k).rb # NoRef)
           /\ Repo(k).lm # NoRef => Job(k).actualMasterRef = "plain"
           /\ Repo(k).lb # NoRef => Job(k).actualBranchRef = "plain"
           /\ (Repo(k).lm = NoRef /\ Repo(k).rm # NoRef)
                => Job(k).actualMasterRef = "origin"
           /\ (Repo(k).lb = NoRef /\ Repo(k).rb # NoRef)
                => Job(k).actualBranchRef = "origin"

C7_Witness ==
  \E k \in Returned :
    /\ ~ToolError(trace[Job(k).name])
    /\ Repo(k).lb # NoRef /\ Repo(k).rb # NoRef /\ Repo(k).lb # Repo(k).rb
    /\ Job(k).actualBranchRef = "plain"
    /\ Repo(k).lm = NoRef /\ Repo(k).rm # NoRef
    /\ Job(k).actualMasterRef = "origin"

\* C8: in uptodate, when both refs exist and the base is not an ancestor of
\* the branch, behindCommits is the number of commits reachable from the
\* resolved base ref and not from the resolved branch ref.
C8_DriftFromResolvedRefs ==
  \A k \in Returned :
    (/\ cmd = "uptodate"
     /\ Job(k).result.branchExists
     /\ Job(k).result.masterExists
     /\ ~ToolError(trace[Job(k).name])
     /\ ~Job(k).result.isUpToDate) =>
      Job(k).result.behindCommits
        = Cardinality(Reach(ResolvedBaseCommit(k))
                        \ Reach(ResolvedBranchCommit(k)))

VerdictFlag(res) == IF cmd = "merged" THEN res.isMerged ELSE res.isUpToDate

LocalExists(r, kind) ==
  RevParse(r, kind, "plain") # NoRef \/ RevParse(r, kind, "origin") # NoRef

LocalCommit(r, kind) ==
  IF RevParse(r, kind, "plain") # NoRef THEN RevParse(r, kind, "plain")
  ELSE RevParse(r, kind, "origin")

LocalVerdict(r) ==
  /\ LocalExists(r, "branch")
  /\ LocalExists(r, "base")
  /\ IF cmd = "merged"
     THEN LocalCommit(r, "branch") \in Reach(LocalCommit(r, "base"))
     ELSE LocalCommit(r, "base") \in Reach(LocalCommit(r, "branch"))

\* C10: a job whose fetch failed or timed out reports fetchSuccess = false,
\* still runs the resolution of both refs and, when both exist, the ancestry
\* check, and reports the existence flags and the verdict of the working
\* copy's local refs.
C10_FailedFetchStillInspects ==
  \A k \in Returned :
    LET t == trace[Job(k).name] IN
    (Out(t, "fetch") = "err" /\ ~ToolError(t)) =>
      /\ ~Job(k).result.fetchSuccess
      /\ Called(t, "verifyBase") /\ Called(t, "verifyBranch")
      /\ Job(k).result.masterExists <=> LocalExists(Repo(k), "base")
      /\ Job(k).result.branchExists <=> LocalExists(Repo(k), "branch")
      /\ VerdictFlag(Job(k).result) <=> LocalVerdict(Repo(k))
      /\ (Job(k).result.masterExists /\ Job(k).result.branchExists)
           => Out(t, "ancestor") \in {"ok", "no"}

C10_Witness ==
  \E k \in Returned :
    /\ Out(trace[Job(k).name], "fetch") = "err"
    /\ ~Job(k).result.fetchSuccess
    /\ VerdictFlag(Job(k).result)
    /\ Job(k).actualBranchRef = "origin"

\* a tool error in the commit resolution or in the ancestry check
CheckToolError(t) ==
  \E x \in DOMAIN t :
    /\ t[x][2] = "err"
    /\ t[x][1] \in {"revBranch", "revMaster", "ancestor"}

\* C11: when both refs exist and a git call of the commit resolution or of
\* the ancestry check fails, the result has its error field populated and
\* its satisfaction flag false.
C11_ToolFailureRecorded ==
  \A k \in Returned :
    (/\ Job(k).result.branchExists
     /\ Job(k).result.masterExists
     /\ CheckToolError(trace[Job(k).name])) =>
      /\ Job(k).result.error # "none"
      /\ ~VerdictFlag(Job(k).result)

\* the number of waves whose join has happened
WavesJoined == (Len(results) + parallel - 1) \div parallel

\* C12 (step): the progress bar is updated in the step that appends a wave's
\* results and in no other, once, with the length of the result list.
C12_UpdateAtJoin ==
  /\ results' # results
       => progress' = Append(progress, Len(results'))
  /\ progress' # progress => results' # results

\* C12 (count): there are as many progress updates as joined waves, and the
\* last one reports the number of results accumulated.
C12_OneUpdatePerWave ==
  /\ Len(progress) = WavesJoined
  /\ progress # <<>> => progress[Len(progress)] = Len(results)

\* C12: after each wave the progress update is made exactly once and
\* reports the cumulative number of results.
C12_ProgressPerWave == [](C12_OneUpdatePerWave) /\ [][C12_UpdateAtJoin]_vars

C12_Witness ==
  /\ parallel = 2
  /\ Len(projectDirs) = 3
  /\ progress = <<2, 3>>
  /\ Len(results) = 3

NonDecreasing(s) == \A a, b \in DOMAIN s : a <= b => s[a] <= s[b]

\* C13 as stated: the completed counts never decrease, and a finished run
\* has made a last progress update that reports the total.
C13_EndsWithFullUpdate ==
  /\ NonDecreasing(progress)
  /\ pc = "done" =>
       /\ progress # <<>>
       /\ progress[Len(progress)] = Len(projectDirs)

\* C13 (amended): the completed counts never decrease; a finished run over
\* at least one repository has made a last update that reports the total,
\* and a run over no repository makes no update.
C13_MonotonicProgress ==
  /\ NonDecreasing(progress)
  /\ (pc = "done" /\ Len(projectDirs) > 0) =>
       /\ progress # <<>>
       /\ progress[Len(progress)] = Len(projectDirs)
  /\ Len(projectDirs) = 0 => progress = <<>>

C13_Witness ==
  /\ pc = "done"
  /\ parallel = 1
  /\ progress = <<1, 2, 3>>

\* C14: behindCommits is a natural number, 0 when the verdict is satisfied
\* and 0 when it was not computed: a ref is missing, or the job ended before
\* the ancestry check.
C14_DriftNonNegative ==
  \A k \in DOMAIN batchPromises :
    /\ Job(k).result.behindCommits \in Nat
    /\ VerdictFlag(Job(k).result) => Job(k).result.behindCommits = 0
    /\ ~Called(trace[Job(k).name], "revList")
         => Job(k).result.behindCommits = 0
    /\ (Job(k).pc = "returned"
        /\ ~(Job(k).result.branchExists /\ Job(k).result.masterExists))
         => ~Called(trace[Job(k).name], "revList")
    /\ Job(k).result.error = "check"
         => ~Called(trace[Job(k).name], "revList")

C14_Witness ==
  \E k \in Returned :
    /\ cmd = "uptodate"
    /\ Job(k).result.isUpToDate
    /\ ResolvedBranchCommit(k) # ResolvedBaseCommit(k)
    /\ Job(k).result.behindCommits = 0

\* the ancestry check of the job ran and git answered it
AncestryAnswered(t) == Out(t, "ancestor") \in {"ok", "no"}

\* C15: when the two refs resolve to the same commit and git answers the
\* ancestry check, merged reports isMerged and uptodate reports isUpToDate
\* with behindCommits = 0.
C15_SameCommitSatisfied ==
  \A k \in Returned :
    (/\ Job(k).result.branchExists
     /\ Job(k).result.masterExists
     /\ AncestryAnswered(trace[Job(k).name])
     /\ ResolvedBranchCommit(k) = ResolvedBaseCommit(k)) =>
      /\ VerdictFlag(Job(k).result)
      /\ Job(k).result.behindCommits = 0

C15_Witness ==
  \E k \in Returned :
    /\ cmd = "uptodate"
    /\ Job(k).result.isUpToDate
    /\ Job(k).actualBranchRef = "origin"
    /\ Job(k).actualMasterRef = "plain"
    /\ ResolvedBranchCommit(k) = ResolvedBaseCommit(k)

\* no git call has failed and nothing was fetched: the refs are what they
\* were when the first invocation started
NoFetchNoFailure == ~fetchOpt /\ faults = 0

Candidates == [k \in 1..Cardinality(ReposOf(entries)) |->
                CHOOSE e \in ReposOf(entries) :
                  Cardinality({d \in ReposOf(entries) : d < e}) = k - 1]

\* C17: discovery selects exactly the subdirectories that contain .git and
\* skips every other entry, a dangling link included, without failing the
\* run.
C17_SkipsSilently ==
  targetExists =>
    /\ pc # "failed"
    /\ pc \notin {"start", "discover"} => projectDirs = Candidates

\* no job has been started and no result produced
NothingStarted ==
  /\ projectDirs = <<>>
  /\ batchPromises = <<>>
  /\ results = <<>>
  /\ \A n \in DOMAIN trace : trace[n] = <<>>

\* C18: when the target directory does not exist the run exits at the check,
\* before discovery; no repository is discovered, no job starts and no
\* result is produced.
C18_MissingRootAborts ==
  ~targetExists => (pc \in {"start", "exit"} /\ NothingStarted)

C18_Witness == ~targetExists /\ pc = "exit"

\* C19: the concurrency limit the wave loop runs with is a positive integer,
\* whatever string the -p option holds.
C19_PositiveLimit ==
  pc = "parsed" => (~parallelNaN /\ parallel >= 1)

\* no git command has been spawned for any repository
NoGitCall == \A p \in DOMAIN gitCalls : gitCalls[p] = <<>>

\* a dry run has spawned nothing, started no job and produced no result
C20_NothingExecuted ==
  sDryRun => (NoGitCall /\ sJobs = <<>> /\ sResults = <<>>)

\* a step of a dry run leaves the target directory and every local path as
\* they are
C20_DiskUntouched ==
  sDryRun => UNCHANGED <<disk, targetDirOnDisk>>

\* C20: with --dry-run no clone, fetch, checkout or pull is executed for any
\* repository and the target directory is not created, whether a repository
\* is absent, a git repository or a directory without .git.
C20_DryRunExecutesNothing ==
  [](C20_NothingExecuted) /\ [][C20_DiskUntouched]_vars

C20_Witness ==
  /\ sDryRun
  /\ sPc = "previewed"
  /\ \E k \in DOMAIN repoInfos : ~repoInfos[k].exists
  /\ \E k \in DOMAIN repoInfos : repoInfos[k].isGitRepo
  /\ \E k \in DOMAIN repoInfos :
       repoInfos[k].exists /\ ~repoInfos[k].isGitRepo

\* a step that starts a non-forced check less than CHECK_INTERVAL after the
\* check recorded in the file
StartsWithinInterval ==
  /\ uPc = "idle"
  /\ uChecks' = uChecks + 1
  /\ ~uForce'
  /\ uFile.present
  /\ uNow' - uFile.lastCheck < CHECK_INTERVAL

\* such a check makes no request and leaves the file as it is
C21_NoRequestWithinInterval ==
  StartsWithinInterval =>
    (uRequests' = uRequests /\ uFile' = uFile /\ uPc' = "idle")

\* the file changes only when a request has returned a version, and then
\* lastCheck is the time that check started at
C21_AdvancedOnlyOnSuccess ==
  uFile' # uFile =>
    (uPc = "request" /\ uLatest' \in Versions /\ uFile'.lastCheck = uNow)

\* C21: a non-forced update check less than 24 hours after the last recorded
\* check makes no request and leaves the stored data unchanged; lastCheck is
\* advanced only by a check that obtained the latest version.
C21_CheckIsCached ==
  [][C21_NoRequestWithinInterval]_vars /\ [][C21_AdvancedOnlyOnSuccess]_vars

C21_Witness ==
  /\ uChecks = 2
  /\ uPc = "idle"
  /\ uValid
  /\ ~uForce
  /\ uRequests = 1
  /\ uLatest = 0
  /\ uFile.present
  /\ uFile.lastCheck < uNow
  /\ uNow - uFile.lastCheck < CHECK_INTERVAL

\* ceil(n / l)
Ceil(n, l) == (n + l - 1) \div l

\* the positions (from 1) of wave k under limit l over n candidates
WaveMembers(k, l, n) == (k * l + 1)..Min((k + 1) * l, n)

\* the positions of a set, in increasing order
InOrder(ps) ==
  [k \in 1..Cardinality(ps) |->
     CHOOSE p \in ps : Cardinality({q \in ps : q < p}) = k - 1]

\* merged / uptodate: the wave being processed is wave number
\* Len(progress); it holds the candidates at that wave's positions, and it
\* is full unless it is the last one
MainWaveAsClaimed ==
  pc = "map" =>
    LET ps == WaveMembers(Len(progress), parallel, Len(projectDirs))
    IN  /\ batch = [k \in 1..Cardinality(ps) |-> projectDirs[InOrder(ps)[k]]]
        /\ batch # <<>>
        /\ Len(batch) = parallel \/ Len(results) + Len(batch) = Len(projectDirs)

\* merged / uptodate: at the end every candidate has been in one wave and
\* ceil(N / L) waves have been processed
MainWaveCount ==
  pc = "done" =>
    /\ Len(progress) = Ceil(Len(projectDirs), parallel)
    /\ [k \in DOMAIN results |-> results[k].name] = projectDirs

\* sync: the same for the chunks of processRepositoriesInParallel
SyncWaveAsClaimed ==
  sPc = "await" =>
    LET ps == WaveMembers(Len(sResults) \div sParallel, sParallel,
                          Len(repoInfos))
    IN  /\ Len(sResults) % sParallel = 0
        /\ [k \in DOMAIN sJobs |-> sJobs[k].pos] = InOrder(ps)
        /\ sJobs # <<>>
        /\ Len(sJobs) = sParallel
           \/ Len(sResults) + Len(sJobs) = Len(repoInfos)

SyncWaveCount ==
  sPc = "shown" =>
    /\ sI = sParallel * Ceil(Len(repoInfos), sParallel)
    /\ [k \in DOMAIN sResults |-> sResults[k].name] = filteredRepos

\* the command has left its loop, or never entered it
LoopOver ==
  \/ pc = "done"
  \/ sPc \in {"shown", "previewed", "returned"}

\* C22: for a positive limit L and N candidates the loop ends after
\* ceil(N / L) waves; wave k holds the candidates at positions k*L to
\* min((k+1)*L, N) - 1 (from 0), so every wave but the last is full and every
\* candidate is in exactly one wave.
C22_WavesPartitionAndEnd ==
  /\ [](MainWaveAsClaimed /\ MainWaveCount)
  /\ [](SyncWaveAsClaimed /\ SyncWaveCount)
  /\ <>LoopOver

C22_Witness ==
  /\ pc = "done"
  /\ Len(projectDirs) = MaxRepos
  /\ parallel = 2
  /\ progress = <<2, MaxRepos>>

\* the positions of the calls of the commands cs in the call log t
CallsOf(t, cs) == {x \in DOMAIN t : t[x][1] \in cs}

BaseResolution == {"verifyBase", "verifyBaseRemote"}

BranchResolution == {"verifyBranch", "verifyBranchRemote"}

\* every call of as comes before every call of bs
Before(t, as, bs) ==
  \A x \in CallsOf(t, as), y \in CallsOf(t, bs) : x < y

\* the call log of one repository is in the claimed order
StepsInOrder(t) ==
  /\ Cardinality(CallsOf(t, {"fetch"})) <= 1
  /\ t # <<>> => (fetchOpt <=> t[1][1] = "fetch")
  /\ CallsOf(t, {"fetch"}) # {} => fetchOpt
  /\ Before(t, {"fetch"}, BaseResolution \cup BranchResolution)
  /\ Before(t, BaseResolution, BranchResolution)
  /\ Before(t, BaseResolution \cup BranchResolution, {"ancestor"})
  /\ Called(t, "ancestor") =>
       /\ CallsOf(t, BaseResolution) # {}
       /\ CallsOf(t, BranchResolution) # {}

\* C23: within one repository's inspection the fetch runs iff fetching is
\* enabled, at most once and before any ref is verified; the base is
\* verified before the branch; the ancestry check comes after both.
C23_FixedStepOrder ==
  \A n \in DOMAIN trace : StepsInOrder(trace[n])

C23_Witness ==
  \E k \in Returned :
    /\ fetchOpt
    /\ Called(trace[Job(k).name], "verifyBaseRemote")
    /\ Called(trace[Job(k).name], "verifyBranchRemote")
    /\ Called(trace[Job(k).name], "ancestor")

\* the git calls of the ancestry block
CheckCalls ==
  {"revBranch", "revMaster", "masterDate", "branchDate", "ancestor",
   "mergeInfo", "mergeDate", "revList"}

\* the fields the ancestry block fills in are as processProject created them
DiagnosticsUnset(res) ==
  /\ ~res.isMerged
  /\ ~res.isUpToDate
  /\ ~res.hasMasterChanges
  /\ res.behindCommits = 0
  /\ ~res.mergeCommit
  /\ ~res.mergeDate
  /\ res.lastMasterCommit = NoRef
  /\ res.lastBranchCommit = NoRef
  /\ ~res.lastMasterDate
  /\ ~res.lastBranchDate

\* C24: when the branch or the base does not exist, no commit is resolved, no
\* ancestry check, drift count, merge commit or date lookup is run for the
\* repository, and the fields they fill stay unset, the drift 0.
C24_MissingRefShortCircuits ==
  \A k \in Returned :
    ~(Job(k).result.branchExists /\ Job(k).result.masterExists) =>
      /\ CallsOf(trace[Job(k).name], CheckCalls) = {}
      /\ DiagnosticsUnset(Job(k).result)

C24_Witness ==
  /\ \E k \in Returned :
       Job(k).result.branchExists /\ ~Job(k).result.masterExists
  /\ cmd = "uptodate"

\* the job is at the merge commit lookup or at the lookup of its date
AtLookup(j) == j.pc \in {"mergeInfo", "mergeDate"}

\* a step of the lookup keeps the verdict, the existence flags and the error
C25_LookupKeepsVerdict ==
  \A k \in DOMAIN batchPromises :
    (AtLookup(batchPromises[k]) /\ k \in DOMAIN batchPromises') =>
      /\ batchPromises'[k].result.isMerged = batchPromises[k].result.isMerged
      /\ batchPromises'[k].result.branchExists
           = batchPromises[k].result.branchExists
      /\ batchPromises'[k].result.masterExists
           = batchPromises[k].result.masterExists
      /\ batchPromises'[k].result.error = batchPromises[k].result.error

\* the lookup is made only by merged, after an ancestry check that
\* succeeded; with no match or a failure mergeCommit and mergeDate stay empty
C25_LookupAfterSuccess ==
  \A n \in DOMAIN trace :
    Called(trace[n], "mergeInfo") =>
      /\ cmd = "merged"
      /\ Out(trace[n], "ancestor") = "ok"
      /\ Before(trace[n], {"ancestor"}, {"mergeInfo"})
      /\ \A k \in Returned :
           Job(k).name = n =>
             /\ Job(k).result.isMerged
             /\ Out(trace[n], "mergeInfo") \in {"no", "err"} =>
                  (~Job(k).result.mergeCommit /\ ~Job(k).result.mergeDate)

\* C25: the merge commit lookup of merged is attempted only after the
\* ancestry check succeeded; found, not found or failed, it leaves isMerged,
\* the existence flags and the error field alone, and without a match
\* mergeCommit and mergeDate stay empty.
C25_LookupIsBestEffort ==
  [](C25_LookupAfterSuccess) /\ [][C25_LookupKeepsVerdict]_vars

C25_Witness ==
  \E k \in Returned :
    /\ Out(trace[Job(k).name], "mergeInfo") = "err"
    /\ Job(k).result.isMerged
    /\ Job(k).result.error = "none"

Decided(rs) ==
  {k \in DOMAIN rs : rs[k].branchExists /\ rs[k].masterExists}
    \ ErrorResults(rs)

\* the two verdict categories of the command
VerdictYes(rs) ==
  IF cmd = "merged" THEN MergedResults(rs) ELSE UpToDateResults(rs)

VerdictNo(rs) ==
  IF cmd = "merged" THEN NotMergedResults(rs) ELSE BehindResults(rs)

\* C27: in the summary of a result list every result with both refs and no
\* error is in exactly one of the two verdict categories, so the two counts
\* over these results add up to their number.
C27_VerdictsPartition ==
  pc = "done" =>
    /\ \A k \in Decided(results) :
         (k \in VerdictYes(results)) # (k \in VerdictNo(results))
    /\ Cardinality(VerdictYes(results) \cap Decided(results))
         + Cardinality(VerdictNo(results) \cap Decided(results))
       = Cardinality(Decided(results))

\* the jobs started for the repository n so far in this run: those of the
\* joined waves and those of the wave being processed
JobsFor(n) ==
  Cardinality({k \in DOMAIN results : results[k].name = n})
    + (IF pc = "map"
       THEN Cardinality({k \in DOMAIN batchPromises :
                           batchPromises[k].name = n})
       ELSE 0)

\* C28: no repository appears twice in the candidate list; at any time at
\* most one job works on a repository, and over the whole run exactly one.
C28_OneJobPerRepository ==
  /\ \A p, q \in DOMAIN projectDirs :
       projectDirs[p] = projectDirs[q] => p = q
  /\ \A k, h \in InFlight :
       batchPromises[k].name = batchPromises[h].name => k = h
  /\ \A p \in DOMAIN projectDirs :
       /\ JobsFor(projectDirs[p]) <= 1
       /\ pc = "done" => JobsFor(projectDirs[p]) = 1

C28_Witness ==
  /\ pc = "done"
  /\ run = 1
  /\ parallel = 2
  /\ entries = <<"repo", "dir", "repo">>
  /\ Len(results) = 2

\* the jobs (positions of repoInfos) that have spawned a git command on the
\* local path of the repository named n
JobsOnPath(n) ==
  {p \in DOMAIN gitCalls :
     gitCalls[p] # <<>> /\ filteredRepos[p] = n}

\* C29: during a sync run every local path, the target directory joined with
\* the repository name, is cloned into or updated by at most one job.
C29_OneJobPerPath ==
  \A n \in DOMAIN disk : Cardinality(JobsOnPath(n)) <= 1

\* the commands of an update, in the order processRepository runs them
UpdateCommands == <<"fetch", "checkout", "pull">>

\* the result of position p and the commands spawned for it are what the
\* on-disk state recorded in repoInfos[p] calls for
SyncResultAsClaimed(p, res) ==
  LET info == repoInfos[p]
      calls == gitCalls[p]
  IN  /\ res.name = info.name
      /\ res.action \in {"cloned", "updated", "error"}
      /\ res.success <=> res.action # "error"
      /\ ~info.exists =>
           /\ calls = <<"clone">>
           /\ res.action \in {"cloned", "error"}
      /\ (info.exists /\ info.isGitRepo) =>
           /\ calls # <<>>
           /\ calls = SubSeq(UpdateCommands, 1, Len(calls))
           /\ res.action \in {"updated", "error"}
           /\ res.action = "updated" => calls = UpdateCommands
      /\ (info.exists /\ ~info.isGitRepo) =>
           /\ calls = <<>>
           /\ res.action = "error"

\* every job that has returned, and every result pushed, is as claimed;
\* at the end there is one result per repository
C30_ResultsAsClaimed ==
  /\ \A k \in DOMAIN sJobs :
       sJobs[k].pc = "returned" =>
         SyncResultAsClaimed(sJobs[k].pos, sJobs[k].result)
  /\ \A p \in DOMAIN sResults : SyncResultAsClaimed(p, sResults[p])
  /\ sPc = "shown" => Len(sResults) = Len(repoInfos)

\* a command is spawned for position p only by the job of p, which goes on
\* without an error and now waits for that command: after the first one only
\* when the command before it has succeeded
C30_NextOnlyAfterSuccess ==
  \A p \in DOMAIN gitCalls :
    gitCalls'[p] # gitCalls[p] =>
      /\ Len(gitCalls'[p]) = Len(gitCalls[p]) + 1
      /\ \E k \in DOMAIN sJobs' :
           /\ sJobs'[k].pos = p
           /\ sJobs'[k].pc = gitCalls'[p][Len(gitCalls'[p])]
           /\ sJobs'[k].result.action = "none"

\* a job that has returned an error has its commands left as they are
C30_FailureStops ==
  \A k \in DOMAIN sJobs :
    sJobs[k].pc = "returned" =>
      gitCalls'[sJobs[k].pos] = gitCalls[sJobs[k].pos]

\* C30: a sync job always returns one result: an absent directory is
\* cloned; a git repository runs fetch, checkout and pull, each only after
\* the one before succeeded; a directory without .git gives an 'error' result
\* and no git command; a failing command ends the job with action 'error'
\* and success = false.
C30_SyncJobOutcome ==
  /\ [](C30_ResultsAsClaimed)
  /\ [][C30_NextOnlyAfterSuccess /\ C30_FailureStops]_vars

C30_Witness ==
  /\ sPc = "shown"
  /\ \E p \in DOMAIN sResults : sResults[p].action = "cloned"
  /\ \E p \in DOMAIN sResults : sResults[p].action = "updated"
  /\ \E p \in DOMAIN sResults :
       /\ sResults[p].action = "error"
       /\ gitCalls[p] = <<"fetch", "checkout">>

====
